---- MODULE Spec2Model ----
(***************************************************************************)
(* Model of the with_lock crate (src/src/lib.rs):                          *)
(*   WithLock<T>  - a std::sync::Mutex<T> with the closure-scoped          *)
(*                  with_lock operation;                                   *)
(*   MutexCell<T> - a Cell-like container over WithLock<T>                 *)
(*                  (get, get_mut, set, replace, swap, take, into_inner).  *)
(*                                                                         *)
(* A value of T occupies two machine words that are copied one word at a   *)
(* time, so that a thread reading or writing a value without exclusive     *)
(* access could see or leave a torn value.  Every thread runs calls on the *)
(* shared cells; one step of a thread is one line of with_lock or one word *)
(* copy of the callback.                                                   *)
(***************************************************************************)
EXTENDS Naturals, Sequences, FiniteSets

\* ------------------------------------------------------------------ bounds
NThreads == 2
NCells == 2
MaxVal == 1
MaxSwaps == 2

\* i32's Default::default(), what take() leaves behind
DefaultVal == 0

Threads == 1..NThreads
\* a cell's number is its identity (its address): ptr::eq compares these
Cells == 1..NCells
NoThread == 0
NoCell == 0
WordVals == 0..MaxVal
\* the words of a T, in copy order
WordSeq == <<"lo", "hi">>
Words == {WordSeq[j] : j \in 1..Len(WordSeq)}
\* the value v as the caller passes it: every word carries v
Clean(v) == [w \in Words |-> v]
Zero == Clean(0)
\* the calls that go through with_lock
Kinds == {"get", "set", "replace", "take", "swap", "panic_cb", "nested"}

VARIABLES
    val,       \* val[c]: the T inside cell c's Mutex, word by word
    locked,    \* locked[c]: the Mutex of cell c is held
    poisoned,  \* poisoned[c]: the Mutex's poison flag
    alive,     \* alive[c]: the cell has not been consumed by into_inner
    excl,      \* excl[c]: the thread holding a &mut borrow of cell c, or NoThread
    pc,        \* pc[t]: where thread t is in its current call
    op,        \* op[t]: the call thread t is running
    held,      \* held[t]: the cells whose MutexGuard thread t owns, innermost last
    k,         \* k[t]: the next step of the callback body
    tmp,       \* tmp[t]: the value the thread has read so far (the call's result)
    out,       \* out[t]: how the call ended
    first,     \* first[t]: the first lock acquired by the current call (history)
    val0,      \* val0[c]: the value cell c was constructed with (history)
    nswap      \* the number of swap calls issued in the swap scenario (history)

vars == <<val, locked, poisoned, alive, excl, pc, op, held, k, tmp, out, first, val0, nswap>>

NoOp == [kind |-> "none", self |-> NoCell, other |-> NoCell, arg |-> 0]
Op(kind, a, b, v) == [kind |-> kind, self |-> a, other |-> b, arg |-> v]

\* the calls a thread can issue through a shared reference
SharedOps ==
    {Op("get", c, c, 0) : c \in Cells}
    \cup {Op("set", c, c, v) : c \in Cells, v \in WordVals}
    \cup {Op("replace", c, c, v) : c \in Cells, v \in WordVals}
    \cup {Op("take", c, c, DefaultVal) : c \in Cells}
    \cup {Op("swap", a, b, 0) : a \in Cells, b \in Cells}
    \cup {Op("panic_cb", c, c, v) : c \in Cells, v \in WordVals}
    \cup {Op("nested", c, c, 0) : c \in Cells}

\* ---------------------------------------------------------- the callbacks
Ins(i, c, d, w) == [i |-> i, c |-> c, d |-> d, w |-> w]
\* (a copy that stops after the first word)
ReadBody_FirstWordOnly(c) == <<Ins("rd", c, c, WordSeq[1])>>
\* |s| *s : copy the value out
ReadBody(c) == [j \in 1..Len(WordSeq) |-> Ins("rd", c, c, WordSeq[j])]
\* |s| *s = data
WriteBody(c) == [j \in 1..Len(WordSeq) |-> Ins("wr", c, c, WordSeq[j])]
\* (a replace that stores the new value before it reads the old one)
ReplaceBody_WriteFirst(c) == WriteBody(c) \o ReadBody(c)
\* mem::replace(old, new): read the old value out, then write the new one
ReplaceBody(c) == ReadBody(c) \o WriteBody(c)
\* (a swap written without the temporary: *a = *b; *b = *a)
SwapBody_NoTemp(a, b) ==
    [j \in 1..Len(WordSeq) |-> Ins("cp", a, b, WordSeq[j])]
    \o [j \in 1..Len(WordSeq) |-> Ins("cp", b, a, WordSeq[j])]
\* mem::swap(a, b): tmp = *a; *a = *b; *b = tmp
SwapBody(a, b) ==
    ReadBody(a)
    \o [j \in 1..Len(WordSeq) |-> Ins("cp", a, b, WordSeq[j])]
    \o [j \in 1..Len(WordSeq) |-> Ins("wt", b, b, WordSeq[j])]
\* a caller's callback that fails half way through an update
PanicBody(c) == <<Ins("wr", c, c, WordSeq[1]), Ins("panic", c, c, WordSeq[1])>>

Body(o) ==
    CASE o.kind = "get" -> ReadBody(o.self)
      [] o.kind = "set" -> WriteBody(o.self)
      [] o.kind \in {"replace", "take"} -> ReplaceBody(o.self)
      [] o.kind = "swap" -> SwapBody(o.self, o.other)
      [] o.kind = "panic_cb" -> PanicBody(o.self)
      [] o.kind = "nested" -> ReadBody(o.self)
      [] OTHER -> <<>>

\* (a swap that locks the other cell first)
SwapLocks_OtherFirst(a, b) == <<b, a>>
\* (a swap that locks self only)
SwapLocks_SelfOnly(a, b) == <<a>>
\* swap: self.data.with_lock(|a| new.data.with_lock(|b| ...))
SwapLocks(a, b) == <<a, b>>
\* the crate's documented caveat: s.with_lock(|_| s.with_lock(|x| *x))
NestedLocks(c) == <<c, c>>
\* (one lock shared by all the cells)
Locks_OneLock(o) ==
    CASE o.kind = "swap" -> SwapLocks(o.self, o.other)
      [] o.kind = "nested" -> NestedLocks(o.self)
      [] OTHER -> <<1>>
\* the locks a call takes, outermost first
Locks(o) ==
    CASE o.kind = "swap" -> SwapLocks(o.self, o.other)
      [] o.kind = "nested" -> NestedLocks(o.self)
      [] OTHER -> <<o.self>>
\* the calls that hand a T back to the caller
ReturnsValue(o) == o.kind \in {"get", "replace", "take", "into_inner"}
\* (the two sides compared by value, not by identity)
PtrEq_ByValue(a, b) == val[a] = val[b]
\* ptr::eq(self, new)
PtrEq(a, b) == a = b

\* ------------------------------------------------------- std::sync::Mutex
\* (a lock that never makes its caller wait)
MutexAvailable_NoWait(c) == TRUE
\* Mutex::lock blocks until the mutex is free; std's mutexes are not
\* reentrant, and a second lock() by the holder itself blocks like any other
MutexAvailable(c) == ~locked[c]
\* (poisoning swallowed, as by unwrap_or_else(PoisonError::into_inner))
PoisonErr_Ignored(c) == FALSE
\* Mutex::lock / get_mut / into_inner return Err(PoisonError) on a poisoned mutex
PoisonErr(c) == poisoned[c]
\* (a guard that is leaked, not dropped, when its thread panics)
DropGuard_LeakOnPanic(c, panicking) ==
    /\ locked' = [locked EXCEPT ![c] = panicking]
    /\ poisoned' = [poisoned EXCEPT ![c] = @ \/ panicking]
\* (a guard that is forgotten, never dropped)
DropGuard_Forgotten(c, panicking) ==
    /\ locked' = locked
    /\ poisoned' = poisoned
\* (a mutex without poisoning)
DropGuard_NoPoison(c, panicking) ==
    /\ locked' = [locked EXCEPT ![c] = FALSE]
    /\ poisoned' = poisoned
\* MutexGuard::drop: unlock, and poison when dropped by a panicking thread
DropGuard(c, panicking) ==
    /\ locked' = [locked EXCEPT ![c] = FALSE]
    /\ poisoned' = [poisoned EXCEPT ![c] = @ \/ panicking]

Holds(t, c) == \E j \in 1..Len(held[t]) : held[t][j] = c
Top(t) == held[t][Len(held[t])]
InCall(t) == pc[t] \in {"lock", "locked", "run", "ran", "unwind", "mut"}
Using(t, c) == InCall(t) /\ c \in {op[t].self, op[t].other}
\* a shared reference to c can be used: c exists and nobody borrows it mutably
Shared(c) == alive[c] /\ excl[c] = NoThread
\* (a receiver that does not exclude the other users of the cell)
Exclusive_SharedOnly(t, c) == Shared(c)
\* &mut self / self: no other reference to c is in use
Exclusive(t, c) == Shared(c) /\ \A u \in Threads \ {t} : ~Using(u, c)

TypeOK ==
    /\ val \in [Cells -> [Words -> WordVals]]
    /\ locked \in [Cells -> BOOLEAN]
    /\ poisoned \in [Cells -> BOOLEAN]
    /\ alive \in [Cells -> BOOLEAN]
    /\ excl \in [Cells -> Threads \cup {NoThread}]
    /\ pc \in [Threads -> {"idle", "lock", "locked", "run", "ran", "unwind",
                           "mut", "done", "panicked"}]
    /\ \A t \in Threads : Len(held[t]) <= 2
    /\ tmp \in [Threads -> [Words -> WordVals]]
    /\ out \in [Threads -> {"none", "unit", "value", "panic_poison", "panic_callback"}]
    /\ first \in [Threads -> Cells \cup {NoCell}]
    /\ val0 \in [Cells -> [Words -> WordVals]]
    /\ nswap \in Nat

\* MutexCell::new(x) for every cell; every thread idle
Init ==
    /\ val \in [Cells -> {Clean(v) : v \in WordVals}]
    /\ val0 = val
    /\ locked = [c \in Cells |-> FALSE]
    /\ poisoned = [c \in Cells |-> FALSE]
    /\ alive = [c \in Cells |-> TRUE]
    /\ excl = [c \in Cells |-> NoThread]
    /\ pc = [t \in Threads |-> "idle"]
    /\ op = [t \in Threads |-> NoOp]
    /\ held = [t \in Threads |-> <<>>]
    /\ k = [t \in Threads |-> 1]
    /\ tmp = [t \in Threads |-> Zero]
    /\ out = [t \in Threads |-> "none"]
    /\ first = [t \in Threads |-> NoCell]
    /\ nswap = 0

\* ------------------------------------------------------------- the steps
\* thread t enters call o; swap returns at once when both sides are one cell
CallOp(t, o) ==
    /\ pc[t] = "idle"
    /\ Shared(o.self) /\ Shared(o.other)
    /\ op' = [op EXCEPT ![t] = o]
    /\ IF o.kind = "swap" /\ PtrEq(o.self, o.other)
       THEN /\ pc' = [pc EXCEPT ![t] = "done"]
            /\ out' = [out EXCEPT ![t] = "unit"]
       ELSE /\ pc' = [pc EXCEPT ![t] = "lock"]
            /\ out' = out
    /\ UNCHANGED <<val, locked, poisoned, alive, excl, held, k, tmp, first, val0>>

\* with_lock, `let lock = self.data.lock();`: wait for the mutex and take it
Lock(t) ==
    /\ pc[t] = "lock"
    /\ LET c == Locks(op[t])[Len(held[t]) + 1] IN
        /\ MutexAvailable(c)
        /\ locked' = [locked EXCEPT ![c] = TRUE]
        /\ held' = [held EXCEPT ![t] = Append(@, c)]
        /\ first' = [first EXCEPT ![t] = IF held[t] = <<>> THEN c ELSE @]
    /\ pc' = [pc EXCEPT ![t] = "locked"]
    /\ UNCHANGED <<val, poisoned, alive, excl, op, k, tmp, out, val0, nswap>>

\* with_lock, `lock.unwrap()`: panic on a poisoned mutex, else enter the callback
\* (swap's outer callback is the inner with_lock call)
Unwrap(t) ==
    /\ pc[t] = "locked"
    /\ IF PoisonErr(Top(t))
       THEN /\ pc' = [pc EXCEPT ![t] = "unwind"]
            /\ out' = [out EXCEPT ![t] = "panic_poison"]
            /\ k' = k
       ELSE /\ out' = out
            /\ IF Len(held[t]) < Len(Locks(op[t]))
               THEN pc' = [pc EXCEPT ![t] = "lock"] /\ k' = k
               ELSE pc' = [pc EXCEPT ![t] = "run"] /\ k' = [k EXCEPT ![t] = 1]
    /\ UNCHANGED <<val, locked, poisoned, alive, excl, op, held, tmp, first, val0, nswap>>

\* one step of the callback `function(&mut *guard)`
Run(t) ==
    /\ pc[t] = "run"
    /\ LET body == Body(op[t])
           ins == body[k[t]]
           last == k[t] = Len(body)
       IN
        /\ val' = CASE ins.i = "wr" -> [val EXCEPT ![ins.c][ins.w] = op[t].arg]
                    [] ins.i = "cp" -> [val EXCEPT ![ins.c][ins.w] = val[ins.d][ins.w]]
                    [] ins.i = "wt" -> [val EXCEPT ![ins.c][ins.w] = tmp[t][ins.w]]
                    [] OTHER -> val
        /\ tmp' = IF ins.i = "rd"
                  THEN [tmp EXCEPT ![t][ins.w] = val[ins.c][ins.w]]
                  ELSE IF last /\ ~ReturnsValue(op[t])
                       THEN [tmp EXCEPT ![t] = Zero]
                       ELSE tmp
        /\ IF ins.i = "panic"
           THEN /\ pc' = [pc EXCEPT ![t] = "unwind"]
                /\ out' = [out EXCEPT ![t] = "panic_callback"]
                /\ k' = [k EXCEPT ![t] = 1]
           ELSE /\ out' = out
                /\ IF last
                   THEN pc' = [pc EXCEPT ![t] = "ran"] /\ k' = [k EXCEPT ![t] = 1]
                   ELSE pc' = pc /\ k' = [k EXCEPT ![t] = @ + 1]
    /\ UNCHANGED <<locked, poisoned, alive, excl, op, held, first, val0, nswap>>

\* with_lock returns: the guard temporary is dropped, innermost first
Release(t) ==
    /\ pc[t] = "ran"
    /\ DropGuard(Top(t), FALSE)
    /\ held' = [held EXCEPT ![t] = SubSeq(@, 1, Len(@) - 1)]
    /\ IF Len(held[t]) = 1
       THEN /\ pc' = [pc EXCEPT ![t] = "done"]
            /\ out' = [out EXCEPT ![t] = IF ReturnsValue(op[t]) THEN "value" ELSE "unit"]
       ELSE pc' = pc /\ out' = out
    /\ UNCHANGED <<val, alive, excl, op, k, tmp, first, val0, nswap>>

\* a panic unwinds through with_lock: each guard is dropped by a panicking thread
Unwind(t) ==
    /\ pc[t] = "unwind"
    /\ DropGuard(Top(t), TRUE)
    /\ held' = [held EXCEPT ![t] = SubSeq(@, 1, Len(@) - 1)]
    /\ pc' = [pc EXCEPT ![t] = IF Len(held[t]) = 1 THEN "panicked" ELSE "unwind"]
    /\ tmp' = [tmp EXCEPT ![t] = Zero]
    /\ UNCHANGED <<val, alive, excl, op, k, out, first, val0, nswap>>

\* get_mut(&mut self): self.data.data.get_mut().unwrap(), no locking
GetMut(t, c) ==
    /\ pc[t] = "idle"
    /\ Exclusive(t, c)
    /\ op' = [op EXCEPT ![t] = Op("get_mut", c, c, 0)]
    /\ IF PoisonErr(c)
       THEN /\ pc' = [pc EXCEPT ![t] = "panicked"]
            /\ out' = [out EXCEPT ![t] = "panic_poison"]
            /\ excl' = excl
       ELSE /\ pc' = [pc EXCEPT ![t] = "mut"]
            /\ out' = out
            /\ excl' = [excl EXCEPT ![c] = t]
    /\ UNCHANGED <<val, locked, poisoned, alive, held, k, tmp, first, val0, nswap>>

\* the caller writes through the &mut T it got from get_mut, ending the borrow
MutWrite(t, v) ==
    /\ pc[t] = "mut"
    /\ val' = [val EXCEPT ![op[t].self] = Clean(v)]
    /\ excl' = [excl EXCEPT ![op[t].self] = NoThread]
    /\ pc' = [pc EXCEPT ![t] = "done"]
    /\ out' = [out EXCEPT ![t] = "unit"]
    /\ UNCHANGED <<locked, poisoned, alive, op, held, k, tmp, first, val0, nswap>>

\* into_inner(self): self.data.data.into_inner().unwrap(); the cell is gone
IntoInner(t, c) ==
    /\ pc[t] = "idle"
    /\ Exclusive(t, c)
    /\ op' = [op EXCEPT ![t] = Op("into_inner", c, c, 0)]
    /\ alive' = [alive EXCEPT ![c] = FALSE]
    /\ IF PoisonErr(c)
       THEN /\ pc' = [pc EXCEPT ![t] = "panicked"]
            /\ out' = [out EXCEPT ![t] = "panic_poison"]
            /\ tmp' = tmp
       ELSE /\ pc' = [pc EXCEPT ![t] = "done"]
            /\ out' = [out EXCEPT ![t] = "value"]
            /\ tmp' = [tmp EXCEPT ![t] = val[c]]
    /\ UNCHANGED <<val, locked, poisoned, excl, held, k, first, val0, nswap>>

\* the caller takes the result and is ready for its next call
Return(t) ==
    /\ pc[t] = "done"
    /\ pc' = [pc EXCEPT ![t] = "idle"]
    /\ op' = [op EXCEPT ![t] = NoOp]
    /\ tmp' = [tmp EXCEPT ![t] = Zero]
    /\ out' = [out EXCEPT ![t] = "none"]
    /\ first' = [first EXCEPT ![t] = NoCell]
    /\ UNCHANGED <<val, locked, poisoned, alive, excl, held, k, val0, nswap>>

Call(t) == \E o \in SharedOps : CallOp(t, o) /\ nswap' = nswap

Next ==
    \E t \in Threads :
        \/ Call(t)
        \/ Lock(t)
        \/ Unwrap(t)
        \/ Run(t)
        \/ Release(t)
        \/ Unwind(t)
        \/ \E c \in Cells : GetMut(t, c)
        \/ \E v \in WordVals : MutWrite(t, v)
        \/ \E c \in Cells : IntoInner(t, c)
        \/ Return(t)

Spec == Init /\ [][Next]_vars

\* --------------------------------------------------------------- scenarios
\* every thread calls replace once, on one cell, and keeps its result
ReplaceCell == 1
CallReplace(t) ==
    \E v \in WordVals :
        CallOp(t, Op("replace", ReplaceCell, ReplaceCell, v)) /\ nswap' = nswap
NextReplace ==
    \E t \in Threads :
        \/ CallReplace(t)
        \/ Lock(t)
        \/ Unwrap(t)
        \/ Run(t)
        \/ Release(t)
SpecReplace == Init /\ [][NextReplace]_vars

\* thread 1 calls get again and again; every other thread calls set once
Getter == 1
CallSetGet(t) ==
    /\ IF t = Getter
       THEN \E c \in Cells : CallOp(t, Op("get", c, c, 0))
       ELSE \E c \in Cells, v \in WordVals : CallOp(t, Op("set", c, c, v))
    /\ nswap' = nswap
ReturnGet(t) == t = Getter /\ Return(t)
NextSetGet ==
    \E t \in Threads :
        \/ CallSetGet(t)
        \/ Lock(t)
        \/ Unwrap(t)
        \/ Run(t)
        \/ Release(t)
        \/ ReturnGet(t)
SpecSetGet == Init /\ [][NextSetGet]_vars

\* thread 1 calls SwapA.swap(&SwapB) up to MaxSwaps times; the other threads
\* only read
Swapper == 1
SwapA == 1
SwapB == 2
CallSwapOrGet(t) ==
    IF t = Swapper
    THEN /\ nswap < MaxSwaps
         /\ CallOp(t, Op("swap", SwapA, SwapB, 0))
         /\ nswap' = nswap + 1
    ELSE /\ \E c \in Cells : CallOp(t, Op("get", c, c, 0))
         /\ nswap' = nswap
NextSwap ==
    \E t \in Threads :
        \/ CallSwapOrGet(t)
        \/ Lock(t)
        \/ Unwrap(t)
        \/ Run(t)
        \/ Release(t)
        \/ Return(t)
SpecSwap == Init /\ [][NextSwap]_vars
\* thread 1 calls take, or replace with the default value, once and keeps the
\* result; the other threads only read
Taker == 1
CallTakeOrGet(t) ==
    /\ IF t = Taker
       THEN \E c \in Cells, kind \in {"take", "replace"} :
                CallOp(t, Op(kind, c, c, DefaultVal))
       ELSE \E c \in Cells : CallOp(t, Op("get", c, c, 0))
    /\ nswap' = nswap
ReturnReader(t) == t # Taker /\ Return(t)
NextTake ==
    \E t \in Threads :
        \/ CallTakeOrGet(t)
        \/ Lock(t)
        \/ Unwrap(t)
        \/ Run(t)
        \/ Release(t)
        \/ ReturnReader(t)
SpecTake == Init /\ [][NextTake]_vars

\* ------------------------------------------------------------ properties
\* the cell thread t is about to lock
WaitCell(t) == Locks(op[t])[Len(held[t]) + 1]
\* thread t takes a step
Acts(t) == <<pc[t], k[t]>>' # <<pc[t], k[t]>>
Holders(c) == {t \in Threads : Holds(t, c)}

\* C1: swap is deadlock free: no group of threads is ever such that each of
\* them, inside swap, holds one cell's lock and waits for a lock held by
\* another thread of the group.
C1_SwapDeadlockFree ==
    ~ \E G \in SUBSET Threads \ {{}} :
        \A t \in G :
            /\ op[t].kind = "swap"
            /\ pc[t] = "lock"
            /\ held[t] # <<>>
            /\ \E u \in G : Holds(u, WaitCell(t))

\* C2: swap lock ordering: for two distinct cells A and B, a call A.swap(B) and
\* a call B.swap(A) acquire the same one of the two locks first.
C2_SwapLockOrder ==
    \A t, u \in Threads :
        ( /\ op[t].kind = "swap" /\ op[u].kind = "swap"
          /\ op[t].self # op[t].other
          /\ op[u].self = op[t].other /\ op[u].other = op[t].self
          /\ first[t] # NoCell /\ first[u] # NoCell )
        => first[t] = first[u]

\* C3 as stated: at most one thread holds a given WithLock's lock, and the
\* contained value changes only in a step of the thread holding that lock.
C3_ValueChangesOnlyUnderLock ==
    /\ [](\A c \in Cells : Cardinality(Holders(c)) <= 1)
    /\ [][\A c \in Cells :
            val'[c] # val[c] => \E t \in Holders(c) : Acts(t)]_vars

\* C3 (amended): at most one thread holds a given WithLock's lock, a held lock
\* is marked locked, and the contained value changes only in a step of the
\* thread holding that lock or, with the lock free and no other call on the
\* cell in progress, in a write through the &mut T handed out by get_mut.
C3_MutualExclusion ==
    /\ [](\A c \in Cells :
            /\ Cardinality(Holders(c)) <= 1
            /\ Holders(c) # {} => locked[c])
    /\ [][\A c \in Cells :
            val'[c] # val[c] =>
                \/ \E t \in Holders(c) : Acts(t)
                \/ /\ Holders(c) = {}
                   /\ ~locked[c]
                   /\ \E t \in Threads :
                        /\ excl[c] = t /\ pc[t] = "mut" /\ Acts(t)
                        /\ \A u \in Threads \ {t} : ~Using(u, c)]_vars

\* a thread is half way through a write (the value is torn) under the lock
\* while another thread waits for that lock
C3_Witness ==
    \E t, u \in Threads : \E c \in Cells :
        /\ t # u
        /\ pc[t] = "run" /\ Holds(t, c)
        /\ val[c]["lo"] # val[c]["hi"]
        /\ pc[u] = "lock" /\ WaitCell(u) = c
\* C4: release on every exit path: a thread that is not inside a call owns no
\* guard, a lock is locked only while some thread owns its guard, the step in
\* which a thread gives up a guard (return or panic) leaves that lock free,
\* and a thread waiting for a free lock can take it.
C4_ReleasedOnExit ==
    /\ [](\A t \in Threads :
            pc[t] \in {"idle", "mut", "done", "panicked"} => held[t] = <<>>)
    /\ [](\A c \in Cells : locked[c] => Holders(c) # {})
    /\ [][\A t \in Threads : \A c \in Cells :
            (Holds(t, c) /\ ~Holds(t, c)') => ~locked'[c]]_vars
    /\ [](\A u \in Threads :
            (pc[u] = "lock" /\ Holders(WaitCell(u)) = {}) => ENABLED Lock(u))

\* a callback has panicked and its thread is gone, and another thread has
\* taken the lock that the panic released
C4_Witness ==
    \E t, u \in Threads :
        /\ t # u
        /\ pc[t] = "panicked" /\ out[t] = "panic_callback"
        /\ pc[u] = "locked" /\ Holds(u, op[t].self)

C6_SwapAtomic ==
    \A t \in Threads :
        (op[t].kind = "swap" /\ pc[t] = "run") =>
            /\ Holders(op[t].self) = {t}
            /\ Holders(op[t].other) = {t}
            /\ excl[op[t].self] = NoThread /\ excl[op[t].other] = NoThread
            /\ \A u \in Threads \ {t} :
                pc[u] = "run" =>
                    {op[u].self, op[u].other} \cap {op[t].self, op[t].other} = {}

\* a swap is half done (self's first word already comes from the other cell)
\* while another thread waits for one of the two locks
C6_Witness ==
    \E t, u \in Threads :
        /\ t # u
        /\ op[t].kind = "swap" /\ pc[t] = "run"
        /\ val[op[t].self]["lo"] # val[op[t].self]["hi"]
        /\ pc[u] = "lock" /\ WaitCell(u) \in {op[t].self, op[t].other}

\* the replace calls on cell c whose callback has finished
Replaced(c) ==
    {t \in Threads : op[t].kind = "replace" /\ op[t].self = c /\ pc[t] \in {"ran", "done"}}
Bit(b) == IF b THEN 1 ELSE 0

\* C7: replace is atomic: a replace call starts writing with the value the
\* cell holds in its hand, and whenever no callback is running on a cell, the
\* values returned by the finished replace calls on it together with its
\* current value are, as a multiset, its initial value together with the
\* arguments of those calls.
C7_ReplaceAtomic ==
    /\ \A t \in Threads :
        (op[t].kind = "replace" /\ pc[t] = "run" /\ k[t] = Len(ReadBody(op[t].self)) + 1)
            => tmp[t] = val[op[t].self]
    /\ \A c \in Cells :
        (\A t \in Threads : ~(pc[t] = "run" /\ op[t].self = c)) =>
            \A x \in [Words -> WordVals] :
                Cardinality({t \in Replaced(c) : tmp[t] = x}) + Bit(val[c] = x)
                = Cardinality({t \in Replaced(c) : Clean(op[t].arg) = x}) + Bit(val0[c] = x)

\* every thread has finished a replace on one cell, two of them with
\* different arguments
C7_Witness ==
    \E c \in Cells :
        /\ \A t \in Threads : pc[t] = "done" /\ op[t].self = c
        /\ \E t, u \in Threads : op[t].arg # op[u].arg

\* C8 as stated: every value get returns is the argument of some set call on
\* that cell.
C8_GetReturnsSomeSetValue ==
    \A t \in Threads :
        (op[t].kind = "get" /\ pc[t] = "done") =>
            \E u \in Threads :
                /\ op[u].kind = "set" /\ op[u].self = op[t].self
                /\ tmp[t] = Clean(op[u].arg)

\* C8 (amended): every value get returns is the cell's initial value or the
\* argument of some set call on that cell, never a mix of two values.
C8_NoTornReads ==
    \A t \in Threads :
        (op[t].kind = "get" /\ pc[t] = "done") =>
            \/ tmp[t] = val0[op[t].self]
            \/ \E u \in Threads :
                /\ op[u].kind = "set" /\ op[u].self = op[t].self
                /\ tmp[t] = Clean(op[u].arg)

\* get has returned a value that a set call stored over a different initial value
C8_Witness ==
    \E t, u \in Threads :
        /\ op[t].kind = "get" /\ pc[t] = "done"
        /\ op[u].kind = "set" /\ op[u].self = op[t].self
        /\ tmp[t] = Clean(op[u].arg)
        /\ tmp[t] # val0[op[t].self]

\* C9: self-swap is a lock-free no-op: a swap of a cell with itself is over
\* in the step that calls it, acquires no lock, changes no value and no lock,
\* and can be called while the cell's lock is held; a swap of two distinct
\* cells, whatever their values, returns only after taking self's lock.
C9_SelfSwapNoOp ==
    /\ [](\A t \in Threads :
            (op[t].kind = "swap" /\ op[t].self = op[t].other) =>
                /\ pc[t] = "done" /\ out[t] = "unit"
                /\ held[t] = <<>> /\ first[t] = NoCell)
    /\ [][\A t \in Threads :
            (op'[t].kind = "swap" /\ op'[t].self = op'[t].other /\ op[t] # op'[t]) =>
                /\ val' = val /\ locked' = locked /\ poisoned' = poisoned
                /\ held' = held]_vars
    /\ [](\A t \in Threads : \A c \in Cells :
            (pc[t] = "idle" /\ Shared(c)) =>
                ENABLED (CallOp(t, Op("swap", c, c, 0)) /\ nswap' = nswap))
    /\ [](\A t \in Threads :
            (op[t].kind = "swap" /\ op[t].self # op[t].other /\ pc[t] = "done") =>
                first[t] = op[t].self)

\* a self-swap has returned while another thread holds that cell's lock
C9_Witness ==
    \E t \in Threads :
        /\ op[t].kind = "swap" /\ op[t].self = op[t].other /\ pc[t] = "done"
        /\ locked[op[t].self]

\* C10: swap result: with no other writer, after one SwapA.swap(&SwapB) SwapA
\* holds SwapB's initial value and SwapB holds SwapA's, and after a second one
\* both hold their initial values again (and so on, by the parity of the
\* number of swaps).
C10_SwapResult ==
    pc[Swapper] \in {"idle", "done"} =>
        IF nswap % 2 = 1
        THEN val[SwapA] = val0[SwapB] /\ val[SwapB] = val0[SwapA]
        ELSE val[SwapA] = val0[SwapA] /\ val[SwapB] = val0[SwapB]

\* two cells with different values have been swapped twice
C10_Witness ==
    /\ nswap = 2 /\ pc[Swapper] = "done"
    /\ val0[SwapA] # val0[SwapB]
    /\ val[SwapA] = val0[SwapA] /\ val[SwapB] = val0[SwapB]
\* C11: take equals replace-with-default: a finished take() and a finished
\* replace(default) on a cell nobody else writes both return the value the
\* cell held and leave the default value in it, and take acquires the lock
\* once.
C11_TakeIsReplaceDefault ==
    /\ [](pc[Taker] = "done" =>
            /\ out[Taker] = "value"
            /\ tmp[Taker] = val0[op[Taker].self]
            /\ val[op[Taker].self] = Clean(DefaultVal))
    /\ [][\A t \in Threads :
            (op[t].kind = "take" /\ Len(held'[t]) > Len(held[t])) =>
                first[t] = NoCell]_vars

\* take() has returned a value that is not the default
C11_Witness ==
    /\ pc[Taker] = "done" /\ op[Taker].kind = "take"
    /\ tmp[Taker] # Clean(DefaultVal)
    /\ val[op[Taker].self] = Clean(DefaultVal)
\* C12: get returns the last write: when get's callback has finished, the
\* value in its hand is the value the cell holds; what get returns is a whole
\* value (one stored by new, set, replace, take, swap or a write through
\* get_mut), never a mix; and no step of get changes any value.
C12_GetReturnsLastWrite ==
    /\ [](\A t \in Threads :
            (op[t].kind = "get" /\ pc[t] = "ran") => tmp[t] = val[op[t].self])
    /\ [](\A t \in Threads :
            (op[t].kind = "get" /\ pc[t] = "done") =>
                /\ out[t] = "value"
                /\ \E v \in WordVals : tmp[t] = Clean(v))
    /\ [][\A t \in Threads :
            (op[t].kind = "get" /\ Acts(t)) => val' = val]_vars

\* get has read a value that is not the one the cell was constructed with
C12_Witness ==
    \E t \in Threads :
        /\ op[t].kind = "get" /\ pc[t] = "ran"
        /\ tmp[t] = val[op[t].self]
        /\ tmp[t] # val0[op[t].self]
\* C13: into_inner returns exactly the value the cell holds, a whole value,
\* and consumes the cell: no call is in progress on a consumed cell, none
\* begins on it, and its value never changes again.
C13_IntoInnerLastValue ==
    /\ [][\A t \in Threads :
            (op'[t].kind = "into_inner" /\ op'[t] # op[t] /\ pc'[t] = "done") =>
                /\ tmp'[t] = val[op'[t].self]
                /\ \E v \in WordVals : tmp'[t] = Clean(v)
                /\ out'[t] = "value"
                /\ val' = val
                /\ ~alive'[op'[t].self]]_vars
    /\ [](\A c \in Cells :
            ~alive[c] =>
                /\ ~locked[c] /\ excl[c] = NoThread
                /\ \A t \in Threads : ~Using(t, c))
    /\ [][\A c \in Cells :
            ~alive[c] =>
                /\ ~alive'[c] /\ val'[c] = val[c]
                /\ \A t \in Threads :
                    op'[t] # op[t] => c \notin {op'[t].self, op'[t].other}]_vars

\* into_inner has returned a value stored after the cell was constructed
C13_Witness ==
    \E t \in Threads :
        /\ op[t].kind = "into_inner" /\ pc[t] = "done"
        /\ ~alive[op[t].self]
        /\ tmp[t] = val[op[t].self]
        /\ tmp[t] # val0[op[t].self]
\* thread t enters a call in this step
Enters(t) == op'[t] # op[t] /\ op'[t].kind # "none"
SelfSwap(o) == o.kind = "swap" /\ o.self = o.other

InLockCall(t, c) ==
    pc[t] \in {"lock", "locked", "run", "ran", "unwind"} /\ c \in {op[t].self, op[t].other}

\* C15: the lock never persists across operations: a cell's lock is free
\* whenever no thread is inside a with_lock, get, set, replace, swap or take
\* call on it, and a thread whose call has returned owns no guard.
C15_LockNeverPersists ==
    /\ \A c \in Cells : (\A t \in Threads : ~InLockCall(t, c)) => ~locked[c]
    /\ \A t \in Threads :
        pc[t] \in {"idle", "done"} =>
            /\ held[t] = <<>>
            /\ \A c \in Cells : locked[c] => \E u \in Threads \ {t} : Holds(u, c)

\* a call that took a lock has returned and nobody is inside a call on that
\* cell: its lock is free
C15_Witness ==
    \E t \in Threads :
        /\ pc[t] = "done" /\ first[t] # NoCell
        /\ \A u \in Threads : ~InLockCall(u, first[t])
        /\ ~locked[first[t]]
\* the outer callback of s.with_lock(|_| s.with_lock(..)) has started and its
\* inner with_lock call is at `self.data.lock()`
NestedBlocked(t) ==
    op[t].kind = "nested" /\ pc[t] = "lock" /\ held[t] = <<op[t].self>>

\* C16: a with_lock call made on the same WithLock from inside its own
\* callback deadlocks: the inner call waits for a lock its own thread holds,
\* it can never take it, and neither call ever completes (the only way out
\* of a nested call is the poisoning panic of the outer unwrap, before the
\* callback starts).
C16_NestedDeadlocks ==
    /\ [](\A t \in Threads : op[t].kind = "nested" =>
            /\ pc[t] \in {"lock", "locked", "unwind", "panicked"}
            /\ Len(held[t]) <= 1
            /\ pc[t] \in {"unwind", "panicked"} => out[t] = "panic_poison"
            /\ NestedBlocked(t) => (locked[op[t].self] /\ ~ENABLED Lock(t)))
    /\ [][\A t \in Threads : NestedBlocked(t) => NestedBlocked(t)']_vars

\* a thread is inside its own callback, waiting for the lock it holds
C16_Witness ==
    \E t \in Threads : NestedBlocked(t) /\ locked[op[t].self] /\ out[t] = "none"
SingleCellKinds == {"get", "set", "replace", "take"}

\* what thread t's step does to the cells other than a
OthersUntouched(a) ==
    \A b \in Cells \ {a} :
        /\ val'[b] = val[b]
        /\ locked'[b] = locked[b]
        /\ poisoned'[b] = poisoned[b]

\* C17: get, set, replace and take on cell A never acquire, wait for, or
\* change the lock or the value of any other cell B: they hold at most A's
\* lock, every step they take leaves B's value, lock and poison flag alone,
\* and they can take A's lock whenever A's lock is free, whoever holds or
\* waits for B's lock.
C17_CellsIndependent ==
    /\ [](\A t \in Threads : (op[t].kind \in SingleCellKinds /\ InCall(t)) =>
            /\ \A j \in 1..Len(held[t]) : held[t][j] = op[t].self
            /\ Len(held[t]) <= 1
            /\ (pc[t] = "lock" /\ ~locked[op[t].self]) => ENABLED Lock(t)
            /\ pc[t] \in {"locked", "run", "ran", "unwind"} =>
                    ENABLED (Unwrap(t) \/ Run(t) \/ Release(t) \/ Unwind(t)))
    /\ [][\A t \in Threads :
            (op'[t].kind \in SingleCellKinds /\ (Enters(t) \/ Acts(t))) =>
                OthersUntouched(op'[t].self)]_vars

\* a get/set/replace/take on A has taken A's lock while another thread holds
\* the lock of a different cell B
C17_Witness ==
    \E t, u \in Threads : \E b \in Cells :
        /\ t # u /\ op[t].kind \in SingleCellKinds /\ pc[t] = "run"
        /\ b # op[t].self /\ Holds(u, b) /\ Holds(t, op[t].self)
\* the threads call swap, on any two cells, MaxSwaps times in all; nothing
\* else writes
CallSwaps(t) ==
    /\ nswap < MaxSwaps
    /\ \E a, b \in Cells : CallOp(t, Op("swap", a, b, 0))
    /\ nswap' = nswap + 1
NextSwaps ==
    \E t \in Threads :
        \/ CallSwaps(t)
        \/ Lock(t)
        \/ Unwrap(t)
        \/ Run(t)
        \/ Release(t)
        \/ Return(t)
SpecSwaps == Init /\ [][NextSwaps]_vars

\* how many cells of f hold the value x
Count(f, x) == Cardinality({c \in Cells : f[c] = x})
\* the cells hold the values they were created with, up to their places
SameMultiset == \A x \in [Words -> WordVals] : Count(val, x) = Count(val0, x)
\* thread t is inside mem::swap(a, b), between its first and its last write
MidExchange(t) == op[t].kind = "swap" /\ pc[t] = "run" /\ k[t] > 1

\* C18 as stated: under concurrent swaps alone, in every reachable state the
\* multiset of the values held by the cells equals the multiset of their
\* initial values.
C18_SwapsConserveAlways == SameMultiset

\* C18: under concurrent swaps alone, no value is duplicated or lost: in
\* every state in which no swap is in the middle of its exchange the multiset
\* of the values held by the cells equals the multiset of their initial
\* values, and a swap in the middle of its exchange holds both locks.
C18_SwapsConserve ==
    /\ (\A t \in Threads : ~MidExchange(t)) => SameMultiset
    /\ \A t \in Threads : MidExchange(t) =>
            (Holds(t, op[t].self) /\ Holds(t, op[t].other))

\* a swap of two cells with different values has returned
C18_Witness ==
    \E t \in Threads :
        /\ op[t].kind = "swap" /\ pc[t] = "done" /\ first[t] # NoCell
        /\ val # val0
        /\ \A u \in Threads : ~MidExchange(u)
\* thread t is inside a.swap(b) on two different cells
InSwap(t) == op[t].kind = "swap" /\ op[t].self # op[t].other /\ InCall(t)

\* C19: poison spreads through swap in one direction only.  When a.swap(b)
\* finds b's lock poisoned it fails while a's lock is held: a's guard is
\* dropped by the panic and a is poisoned too, and no value changes.  When
\* a's lock is the poisoned one the call fails holding a's lock alone: b's
\* lock is never taken and the failing call changes neither b's lock nor
\* b's poison flag.  The exchange runs only under two unpoisoned locks.
C19_PoisonOneWay ==
    /\ [](\A t \in Threads : InSwap(t) =>
            /\ Len(held[t]) >= 1 => held[t][1] = op[t].self
            /\ Len(held[t]) = 2 => (held[t][2] = op[t].other /\ ~poisoned[op[t].self])
            /\ (pc[t] = "lock" /\ Len(held[t]) = 1) => ~poisoned[op[t].self]
            /\ pc[t] \in {"run", "ran"} =>
                    (~poisoned[op[t].self] /\ (Len(held[t]) = 2 => ~poisoned[op[t].other]))
            /\ pc[t] = "unwind" =>
                    (out[t] = "panic_poison" /\
                     (poisoned[op[t].self] \/ poisoned[op[t].other])))
    /\ [](\A t \in Threads :
            (op[t].kind = "swap" /\ pc[t] = "panicked") => poisoned[op[t].self])
    /\ [][\A t \in Threads : (InSwap(t) /\ Acts(t)) =>
            /\ (pc[t] = "locked" /\ Len(held[t]) = 2 /\ poisoned[op[t].other]) =>
                    (pc'[t] = "unwind" /\ out'[t] = "panic_poison" /\ val' = val)
            /\ (pc[t] = "locked" /\ Len(held[t]) = 1 /\ poisoned[op[t].self]) =>
                    (pc'[t] = "unwind" /\ out'[t] = "panic_poison" /\ val' = val
                     /\ locked'[op[t].other] = locked[op[t].other]
                     /\ poisoned'[op[t].other] = poisoned[op[t].other])
            /\ pc[t] = "unwind" =>
                    /\ val' = val
                    /\ poisoned'[Top(t)]
                    /\ Len(held[t]) = 1 =>
                        (pc'[t] = "panicked" /\ poisoned'[op[t].self]
                         /\ locked'[op[t].other] = locked[op[t].other]
                         /\ poisoned'[op[t].other] = poisoned[op[t].other])]_vars

\* a.swap(b) has failed on b's poisoned lock while it holds a's lock, which
\* is not poisoned yet
C19_Witness ==
    \E t \in Threads :
        /\ InSwap(t) /\ pc[t] = "unwind" /\ held[t] = <<op[t].self, op[t].other>>
        /\ poisoned[op[t].other] /\ ~poisoned[op[t].self]
        /\ out[t] = "panic_poison"
\* every thread calls get, set, replace and take, on any cell, again and
\* again: no swap, no nested locking, no panicking callback.  The mutex is
\* fair (a waiter that can take the lock again and again does take it) and a
\* running thread keeps running.
CallSingle(t) ==
    /\ \E c \in Cells, kind \in SingleCellKinds, v \in WordVals :
            CallOp(t, Op(kind, c, c, IF kind \in {"set", "replace"} THEN v ELSE DefaultVal))
    /\ nswap' = nswap
NextSingle ==
    \E t \in Threads :
        \/ CallSingle(t)
        \/ Lock(t)
        \/ Unwrap(t)
        \/ Run(t)
        \/ Release(t)
        \/ Return(t)
FairSingle ==
    \A t \in Threads :
        /\ SF_vars(Lock(t))
        /\ WF_vars(Unwrap(t))
        /\ WF_vars(Run(t))
        /\ WF_vars(Release(t))
SpecSingleFair == Init /\ [][NextSingle]_vars /\ FairSingle

\* C20: with a fair lock and callbacks that end without panicking, every
\* get, set, replace and take call (each one with_lock call) issued by any
\* number of concurrent threads eventually returns.
C20_SingleCellOpsFinish ==
    \A t \in Threads : InCall(t) ~> (pc[t] = "done")

\* a call waits for a lock that another thread's call holds
C20_Witness ==
    \E t, u \in Threads :
        /\ t # u /\ pc[t] = "lock" /\ op[t].kind \in SingleCellKinds
        /\ Holds(u, op[t].self) /\ pc[u] = "run"
====
